---- MODULE Spec2Model ----
(***************************************************************************)
(* Model of src/src/router.ts: resolveChallenge (the sampling loop that    *)
(* derives a 160-bit challenge key from the caller address) and            *)
(* Router.swapCallParameters (validation, encoding and the method table).  *)
(*                                                                         *)
(* A JavaScript string is a sequence of one-character strings, a Buffer is *)
(* a sequence of bytes (0..255), and an ethers BigNumber is the minimal    *)
(* big-endian byte sequence of its value (the empty sequence is zero).     *)
(***************************************************************************)
EXTENDS Integers, Sequences, FiniteSets, TLC

VARIABLES trade, options, caller, pc, signerAddress, challengeKey,
          resolveCalls, draws,
          to, amountIn, amountOut, path, nowMs, deadline, result, error

vars == <<trade, options, caller, pc, signerAddress, challengeKey,
          resolveCalls, draws,
          to, amountIn, amountOut, path, nowMs, deadline, result, error>>

----------------------------------------------------------------------------
(* Strings, buffers and numbers                                            *)

HexChars == <<"0", "1", "2", "3", "4", "5", "6", "7",
              "8", "9", "a", "b", "c", "d", "e", "f">>

IsHexChar(c) == \E i \in 1..16 : HexChars[i] = c

HexVal(c) == (CHOOSE i \in 1..16 : HexChars[i] = c) - 1

Max(a, b) == IF a >= b THEN a ELSE b

Min(a, b) == IF a <= b THEN a ELSE b

\* '0'.repeat(n)
repeat0(n) == [i \in 1..n |-> "0"]

\* hex.slice(2)
slice2(s) == SubSeq(s, 3, Len(s))

\* padded.slice(-2)
sliceLast2(s) == SubSeq(s, Max(Len(s) - 1, 1), Len(s))

\* Number.prototype.toString(16) / JSBI toString(16) of a non-negative
\* integer: the minimal digit string, "0" for zero.
RECURSIVE NumToString16(_)
NumToString16(n) ==
    IF n < 16 THEN <<HexChars[n + 1]>>
    ELSE NumToString16(n \div 16) \o <<HexChars[(n % 16) + 1]>>

\* parseInt(s, 16): the value of the longest prefix of hex digits, NaN (-1)
\* when that prefix is empty.
RECURSIVE parseDigits(_, _)
parseDigits(s, acc) ==
    IF s = <<>> \/ ~IsHexChar(Head(s)) THEN acc
    ELSE parseDigits(Tail(s), 16 * acc + HexVal(Head(s)))

parseInt16(s) ==
    IF s = <<>> \/ ~IsHexChar(Head(s)) THEN -1 ELSE parseDigits(s, 0)

\* Buffer.from(s, 'hex'): decodes two characters per byte and stops at the
\* first pair that is not two hex digits (or at a trailing single character).
RECURSIVE BufferFromHex(_)
BufferFromHex(s) ==
    IF Len(s) < 2 THEN <<>>
    ELSE IF IsHexChar(s[1]) /\ IsHexChar(s[2])
         THEN <<16 * HexVal(s[1]) + HexVal(s[2])>>
                  \o BufferFromHex(Tail(Tail(s)))
         ELSE <<>>

\* buf.toString('hex'): two digits per byte.
RECURSIVE BufferToHex(_)
BufferToHex(buf) ==
    IF buf = <<>> THEN <<>>
    ELSE <<HexChars[(Head(buf) \div 16) + 1], HexChars[(Head(buf) % 16) + 1]>>
             \o BufferToHex(Tail(buf))

\* a ^ b on two bytes; JavaScript turns an undefined operand into 0.
RECURSIVE BitXor(_, _)
BitXor(a, b) ==
    IF a = 0 /\ b = 0 THEN 0
    ELSE (((a % 2) + (b % 2)) % 2) + 2 * BitXor(a \div 2, b \div 2)

RECURSIVE StripZeros(_)
StripZeros(buf) ==
    IF buf # <<>> /\ Head(buf) = 0 THEN StripZeros(Tail(buf)) ELSE buf

Front(s) == SubSeq(s, 1, Len(s) - 1)

Last(s) == s[Len(s)]

\* ethers.BigNumber.from('0x...'): the value of the hex string.
BigNumberFrom(hexString) ==
    LET digits == slice2(hexString)
        even   == IF Len(digits) % 2 = 1 THEN <<"0">> \o digits ELSE digits
    IN  StripZeros(BufferFromHex(even))

\* BigNumber.toHexString(): "0x", then an even number of digits with no
\* leading zero byte; zero is "0x00".
toHexString(bn) ==
    <<"0", "x">> \o (IF bn = <<>> THEN <<"0", "0">> ELSE BufferToHex(bn))

RECURSIVE lexLte(_, _)
lexLte(a, b) ==
    IF a = <<>> THEN TRUE
    ELSE IF Head(a) # Head(b) THEN Head(a) < Head(b)
    ELSE lexLte(Tail(a), Tail(b))

\* a.lte(b)
lte(a, b) ==
    IF Len(a) # Len(b) THEN Len(a) < Len(b) ELSE lexLte(a, b)

\* a.gte(b)
gte(a, b) == lte(b, a)

\* a.add(1)
RECURSIVE add1(_)
add1(bn) ==
    IF bn = <<>> THEN <<1>>
    ELSE IF Last(bn) < 255 THEN Front(bn) \o <<Last(bn) + 1>>
    ELSE add1(Front(bn)) \o <<0>>

\* a.sub(1), for a > 0
RECURSIVE sub1(_)
sub1(bn) ==
    IF Last(bn) > 0 THEN StripZeros(Front(bn) \o <<Last(bn) - 1>>)
    ELSE sub1(Front(bn)) \o <<255>>

\* a.mod(2).eq(0)
mod2eq0(bn) == bn = <<>> \/ Last(bn) % 2 = 0

----------------------------------------------------------------------------
(* resolveChallenge                                                        *)

ZERO_HEX == <<"0", "x", "0">>

GOAL == 69

\* the number of hex digits of an address and of a random candidate
HexLen == 40

\* values of the locals before they are assigned
None == "none"

Unset == <<>>

NoKey == <<-1>>

NoResult == [methodName |-> None, args |-> <<>>, value |-> <<>>]

pad(hex, count) == repeat0(Max(count - Len(hex), 0)) \o hex

getBEFB(ckashHex) ==
    LET padded == pad(ckashHex, HexLen)
    IN  parseInt16(sliceLast2(padded))

\* buf1.map((b, i) => b ^ buf2[i]): the result has the length of buf1, and
\* an index past the end of buf2 reads undefined.
xor(hex1, hex2) ==
    LET buf1 == BufferFromHex(slice2(hex1))
        buf2 == BufferFromHex(slice2(hex2))
    IN  BufferToHex([i \in 1..Len(buf1) |->
                       BitXor(buf1[i], IF i <= Len(buf2) THEN buf2[i] ELSE 0)])

MaxKey == BigNumberFrom(<<"0", "x">> \o [i \in 1..HexLen |-> "f"])

\* limits with the two parities exchanged
limits_swapped(address) ==
    LET signer == BigNumberFrom(address)
    IN  IF mod2eq0(signer)
        THEN <<<<>>, sub1(signer)>>
        ELSE <<add1(signer), MaxKey>>

limits(address) ==
    LET signer == BigNumberFrom(address)
    IN  IF mod2eq0(signer)
        THEN <<add1(signer), MaxKey>>
        ELSE <<<<>>, sub1(signer)>>

betweenLimits(address, key) ==
    /\ gte(key, limits(address)[1])
    /\ lte(key, limits(address)[2])

resolved(address, key) ==
    IF ~betweenLimits(address, key) THEN FALSE
    ELSE LET ckasHex   == toHexString(key)
             padded    == pad(ckasHex, HexLen)
             xorred    == xor(address, padded)
             firstByte == getBEFB(xorred)
         IN  firstByte = GOAL

----------------------------------------------------------------------------
(* The inputs the model draws                                              *)

\* a 20-byte value: a leading byte, 18 equal middle bytes, a last byte
Bytes20(top, fill, last) ==
    <<top>> \o [i \in 1..((HexLen \div 2) - 2) |-> fill] \o <<last>>

\* caller addresses for the resolver: values with and without leading zero
\* bytes whose last byte is 0x01, 0x02, 0x45 or 0xfe; 1, 2 and 2^160-2 are
\* among them
CallerShapes ==
    { <<t, f, l>> : t \in {0, 255}, f \in {0, 255}, l \in {1, 2, 69, 254} }

Address(c) == <<"0", "x">> \o BufferToHex(Bytes20(c[1], c[2], c[3]))

Callers == { Address(c) : c \in CallerShapes }

\* caller addresses for the builder: 2, 1 and 0xff00..0045
BuildCallers ==
    { Address(c) : c \in { <<0, 0, 2>>, <<0, 0, 1>>, <<255, 0, 69>> } }

\* what genRanHex(40) can return: for each last byte 0x00, 0x44, 0x47 and
\* 0xbb (the last bytes of the callers XOR 0x45) the value of one byte, the
\* smallest 20-byte value and the largest value
RanHex ==
    { BufferToHex(Bytes20(k[1], k[2], l)) :
        k \in { <<0, 0>>, <<1, 0>>, <<255, 255>> }, l \in {0, 68, 71, 187} }

\* ethers.BigNumber.from('0x' + genRanHex(40)), for every string genRanHex
\* can return
Candidates == { BigNumberFrom(<<"0", "x">> \o h) : h \in RanHex }

\* the cap of the draw counter (the loop itself has none)
MaxDraws == 2

\* the number of clock readings
MaxClock == 2

ETHER == "ETHER"

TOKEN == "TOKEN"

EXACT_INPUT == "EXACT_INPUT"

EXACT_OUTPUT == "EXACT_OUTPUT"

\* each trade carries the two slippage-adjusted amounts the entity model
\* computes for the configured tolerance, and its route
Pricings ==
    { [maximumAmountIn |-> 100, minimumAmountOut |-> 99,
       route |-> <<[address |-> "tokenA"], [address |-> "tokenB"]>>],
      [maximumAmountIn |-> 4096, minimumAmountOut |-> 7,
       route |-> <<[address |-> "tokenA"], [address |-> "tokenC"],
                   [address |-> "tokenB"]>>] }

Trades ==
    { [tradeType |-> tt, inputAmount |-> [currency |-> ci],
       outputAmount |-> [currency |-> co],
       maximumAmountIn |-> p.maximumAmountIn,
       minimumAmountOut |-> p.minimumAmountOut, route |-> p.route] :
        tt \in {EXACT_INPUT, EXACT_OUTPUT}, ci \in {ETHER, TOKEN},
        co \in {ETHER, TOKEN}, p \in Pricings }

Recipients == {"0xRecipient", "not-an-address"}

\* TradeOptions (ttl) and TradeOptionsDeadline (deadline), with and without
\* the optional feeOnTransfer
OptionsTtl ==
    { [ttl |-> t, recipient |-> r] : t \in {-1, 0, 1200}, r \in Recipients }
    \cup { [ttl |-> t, recipient |-> r, feeOnTransfer |-> f] :
             t \in {-1, 0, 1200}, r \in Recipients, f \in BOOLEAN }

OptionsDeadline ==
    { [deadline |-> 1700000000, recipient |-> r] : r \in Recipients }
    \cup { [deadline |-> 1700000000, recipient |-> r, feeOnTransfer |-> f] :
             r \in Recipients, f \in BOOLEAN }

\* new Date().getTime() readings, in milliseconds
ClockReadings == { 1500 * k : k \in 1..MaxClock }

----------------------------------------------------------------------------
(* Router.swapCallParameters                                               *)

toHex(raw) == <<"0", "x">> \o NumToString16(raw)

\* validateAndParseAddress: the canonical address, or a failure
validateAndParseAddress(address) ==
    IF address = "0xRecipient" THEN address ELSE None

etherIn == trade.inputAmount.currency = ETHER

etherOut == trade.outputAmount.currency = ETHER

\* Boolean(options.feeOnTransfer)
useFeeOnTransfer ==
    IF "feeOnTransfer" \in DOMAIN options THEN options.feeOnTransfer ELSE FALSE

Init ==
    /\ trade \in Trades
    /\ options \in OptionsTtl \cup OptionsDeadline
    /\ caller \in BuildCallers
    /\ pc = "start"
    /\ signerAddress = Unset
    /\ challengeKey = NoKey
    /\ resolveCalls = 0
    /\ draws = 0
    /\ to = None
    /\ amountIn = Unset
    /\ amountOut = Unset
    /\ path = Unset
    /\ nowMs = -1
    /\ deadline = Unset
    /\ result = NoResult
    /\ error = None

\* line 135 and lines 92-113: the builder calls resolveChallenge, which
\* draws its first candidate
ResolveStart ==
    /\ pc = "start"
    /\ signerAddress' = caller
    /\ \E k \in Candidates : challengeKey' = k
    /\ resolveCalls' = resolveCalls + 1
    /\ draws' = Min(draws + 1, MaxDraws)
    /\ pc' = "loop"
    /\ UNCHANGED <<nowMs, trade, options, caller, to, amountIn, amountOut,
                   path, deadline, result, error>>

\* resolved(challengeKey) for every caller and candidate, evaluated once
ResolvedKeys == [c \in Callers |-> { k \in Candidates : resolved(c, k) }]

\* lines 114-116: the candidate is not resolved, draw another
LoopRetry ==
    /\ pc = "loop"
    /\ challengeKey \notin ResolvedKeys[signerAddress]
    /\ \E k \in Candidates : challengeKey' = k
    /\ draws' = Min(draws + 1, MaxDraws)
    /\ UNCHANGED <<signerAddress, nowMs, trade, options, caller, pc,
                   resolveCalls, to, amountIn, amountOut, path, deadline,
                   result, error>>

\* lines 114 and 118: the candidate is resolved, resolveChallenge returns
LoopExit ==
    /\ pc = "loop"
    /\ challengeKey \in ResolvedKeys[signerAddress]
    /\ pc' = "invariants"
    /\ UNCHANGED <<signerAddress, nowMs, trade, options, caller, challengeKey,
                   resolveCalls, draws, to, amountIn, amountOut, path,
                   deadline, result, error>>

\* lines 136-140 with the time-to-live checked first
Invariants_ttlFirst ==
    /\ pc = "invariants"
    /\ IF "ttl" \in DOMAIN options /\ ~(options.ttl > 0)
         THEN pc' = "failed" /\ error' = "TTL"
       ELSE IF etherIn /\ etherOut
         THEN pc' = "failed" /\ error' = "ETHER_IN_OUT"
       ELSE pc' = "recipient" /\ error' = error
    /\ UNCHANGED <<signerAddress, nowMs, trade, options, caller, challengeKey,
                   resolveCalls, draws, to, amountIn, amountOut, path,
                   deadline, result>>

\* lines 136-140 with a time-to-live of zero let through
Invariants_ttlZero ==
    /\ pc = "invariants"
    /\ IF etherIn /\ etherOut
         THEN pc' = "failed" /\ error' = "ETHER_IN_OUT"
       ELSE IF "ttl" \in DOMAIN options /\ ~(options.ttl >= 0)
         THEN pc' = "failed" /\ error' = "TTL"
       ELSE pc' = "recipient" /\ error' = error
    /\ UNCHANGED <<signerAddress, nowMs, trade, options, caller, challengeKey,
                   resolveCalls, draws, to, amountIn, amountOut, path,
                   deadline, result>>

\* lines 136-140: the two invariants
Invariants ==
    /\ pc = "invariants"
    /\ IF etherIn /\ etherOut
         THEN pc' = "failed" /\ error' = "ETHER_IN_OUT"
       ELSE IF "ttl" \in DOMAIN options /\ ~(options.ttl > 0)
         THEN pc' = "failed" /\ error' = "TTL"
       ELSE pc' = "recipient" /\ error' = error
    /\ UNCHANGED <<signerAddress, nowMs, trade, options, caller, challengeKey,
                   resolveCalls, draws, to, amountIn, amountOut, path,
                   deadline, result>>

\* line 142
Recipient ==
    /\ pc = "recipient"
    /\ IF validateAndParseAddress(options.recipient) = None
         THEN pc' = "failed" /\ error' = "INVALID_ADDRESS" /\ to' = to
         ELSE /\ pc' = "encode"
              /\ to' = validateAndParseAddress(options.recipient)
              /\ error' = error
    /\ UNCHANGED <<signerAddress, nowMs, trade, options, caller, challengeKey,
                   resolveCalls, draws, amountIn, amountOut, path, deadline,
                   result>>

\* lines 143-150 with line 144 in place of line 145
Encode_minimumAmountOut ==
    /\ pc = "encode"
    /\ amountIn' = toHex(trade.maximumAmountIn)
    /\ amountOut' = toHex(trade.minimumAmountOut)
    /\ path' = [i \in 1..Len(trade.route) |-> trade.route[i].address]
    /\ IF "ttl" \in DOMAIN options
         THEN \E ms \in ClockReadings :
                /\ nowMs' = ms
                /\ deadline' = <<"0", "x">>
                                 \o NumToString16((ms \div 1000) + options.ttl)
         ELSE /\ nowMs' = nowMs
              /\ deadline' = <<"0", "x">> \o NumToString16(options.deadline)
    /\ pc' = "select"
    /\ UNCHANGED <<signerAddress, trade, options, caller, challengeKey,
                   resolveCalls, draws, to, result, error>>

\* lines 143-150 with the clock left in milliseconds
Encode_milliseconds ==
    /\ pc = "encode"
    /\ amountIn' = toHex(trade.maximumAmountIn)
    /\ amountOut' = <<"0", "x", "0">>
    /\ path' = [i \in 1..Len(trade.route) |-> trade.route[i].address]
    /\ IF "ttl" \in DOMAIN options
         THEN \E ms \in ClockReadings :
                /\ nowMs' = ms
                /\ deadline' = <<"0", "x">>
                                 \o NumToString16(ms + options.ttl)
         ELSE /\ nowMs' = nowMs
              /\ deadline' = <<"0", "x">> \o NumToString16(options.deadline)
    /\ pc' = "select"
    /\ UNCHANGED <<signerAddress, trade, options, caller, challengeKey,
                   resolveCalls, draws, to, result, error>>

\* lines 143-150
Encode ==
    /\ pc = "encode"
    /\ amountIn' = toHex(trade.maximumAmountIn)
    /\ amountOut' = <<"0", "x", "0">>
    /\ path' = [i \in 1..Len(trade.route) |-> trade.route[i].address]
    /\ IF "ttl" \in DOMAIN options
         THEN \E ms \in ClockReadings :
                /\ nowMs' = ms
                /\ deadline' = <<"0", "x">>
                                 \o NumToString16((ms \div 1000) + options.ttl)
         ELSE /\ nowMs' = nowMs
              /\ deadline' = <<"0", "x">> \o NumToString16(options.deadline)
    /\ pc' = "select"
    /\ UNCHANGED <<signerAddress, trade, options, caller, challengeKey,
                   resolveCalls, draws, to, result, error>>

\* lines 158-177 with the last argument of swapExactTokensForETH left out
ExactInputCase_noKey ==
    IF etherIn
    THEN [methodName |->
            IF useFeeOnTransfer
            THEN "swapExactETHForTokensSupportingFeeOnTransferTokens"
            ELSE "swapExactETHForTokens",
          args |-> <<amountOut, path, to, deadline, toHexString(challengeKey)>>,
          value |-> amountIn]
    ELSE IF etherOut
    THEN [methodName |->
            IF useFeeOnTransfer
            THEN "swapExactTokensForETHSupportingFeeOnTransferTokens"
            ELSE "swapExactTokensForETH",
          args |-> <<amountIn, amountOut, path, to, deadline>>,
          value |-> ZERO_HEX]
    ELSE [methodName |->
            IF useFeeOnTransfer
            THEN "swapExactTokensForTokensSupportingFeeOnTransferTokens"
            ELSE "swapExactTokensForTokens",
          args |-> <<amountIn, amountOut, path, to, deadline,
                     toHexString(challengeKey)>>,
          value |-> ZERO_HEX]

\* lines 158-177: case TradeType.EXACT_INPUT
ExactInputCase ==
    IF etherIn
    THEN [methodName |->
            IF useFeeOnTransfer
            THEN "swapExactETHForTokensSupportingFeeOnTransferTokens"
            ELSE "swapExactETHForTokens",
          args |-> <<amountOut, path, to, deadline, toHexString(challengeKey)>>,
          value |-> amountIn]
    ELSE IF etherOut
    THEN [methodName |->
            IF useFeeOnTransfer
            THEN "swapExactTokensForETHSupportingFeeOnTransferTokens"
            ELSE "swapExactTokensForETH",
          args |-> <<amountIn, amountOut, path, to, deadline,
                     toHexString(challengeKey)>>,
          value |-> ZERO_HEX]
    ELSE [methodName |->
            IF useFeeOnTransfer
            THEN "swapExactTokensForTokensSupportingFeeOnTransferTokens"
            ELSE "swapExactTokensForTokens",
          args |-> <<amountIn, amountOut, path, to, deadline,
                     toHexString(challengeKey)>>,
          value |-> ZERO_HEX]

\* lines 180-195 with the two amounts of swapTokensForExactETH exchanged
ExactOutputCase_swapped ==
    IF etherIn
    THEN [methodName |-> "swapETHForExactTokens",
          args |-> <<amountOut, path, to, deadline, toHexString(challengeKey)>>,
          value |-> amountIn]
    ELSE IF etherOut
    THEN [methodName |-> "swapTokensForExactETH",
          args |-> <<amountIn, amountOut, path, to, deadline,
                     toHexString(challengeKey)>>,
          value |-> ZERO_HEX]
    ELSE [methodName |-> "swapTokensForExactTokens",
          args |-> <<amountOut, amountIn, path, to, deadline,
                     toHexString(challengeKey)>>,
          value |-> ZERO_HEX]

\* lines 180-195: case TradeType.EXACT_OUTPUT, after its invariant
ExactOutputCase ==
    IF etherIn
    THEN [methodName |-> "swapETHForExactTokens",
          args |-> <<amountOut, path, to, deadline, toHexString(challengeKey)>>,
          value |-> amountIn]
    ELSE IF etherOut
    THEN [methodName |-> "swapTokensForExactETH",
          args |-> <<amountOut, amountIn, path, to, deadline,
                     toHexString(challengeKey)>>,
          value |-> ZERO_HEX]
    ELSE [methodName |-> "swapTokensForExactTokens",
          args |-> <<amountOut, amountIn, path, to, deadline,
                     toHexString(challengeKey)>>,
          value |-> ZERO_HEX]

\* lines 157-197: methodName, args and value of the branch taken
SwapParameters ==
    IF trade.tradeType = EXACT_INPUT THEN ExactInputCase ELSE ExactOutputCase

\* lines 152-202: the switch, its EXACT_OUT_FOT invariant and the return
Select ==
    /\ pc = "select"
    /\ IF trade.tradeType = EXACT_OUTPUT /\ useFeeOnTransfer
         THEN pc' = "failed" /\ error' = "EXACT_OUT_FOT" /\ result' = result
         ELSE pc' = "returned" /\ result' = SwapParameters /\ error' = error
    /\ UNCHANGED <<signerAddress, nowMs, trade, options, caller, challengeKey,
                   resolveCalls, draws, to, amountIn, amountOut, path,
                   deadline>>

Next ==
    \/ ResolveStart
    \/ LoopRetry
    \/ LoopExit
    \/ Invariants
    \/ Recipient
    \/ Encode
    \/ Select

Spec == Init /\ [][Next]_vars

\* resolveChallenge on its own, for every caller
InitResolve ==
    /\ trade = [tradeType |-> EXACT_INPUT, inputAmount |-> [currency |-> TOKEN],
                outputAmount |-> [currency |-> TOKEN],
                maximumAmountIn |-> 100, minimumAmountOut |-> 99,
                route |-> <<[address |-> "tokenA"], [address |-> "tokenB"]>>]
    /\ options = [ttl |-> 1200, recipient |-> "0xRecipient"]
    /\ caller \in Callers
    /\ pc = "start"
    /\ signerAddress = Unset
    /\ challengeKey = NoKey
    /\ resolveCalls = 0
    /\ draws = 0
    /\ to = None
    /\ amountIn = Unset
    /\ amountOut = Unset
    /\ path = Unset
    /\ nowMs = -1
    /\ deadline = Unset
    /\ result = NoResult
    /\ error = None

NextResolve ==
    \/ ResolveStart
    \/ LoopRetry
    \/ LoopExit

SpecResolve == InitResolve /\ [][NextResolve]_vars

\* Math.random is fair: every candidate keeps being drawn, so a candidate
\* that ends the loop is drawn whenever there is one; the synchronous code
\* always takes its next step
FairSpecResolve ==
    /\ SpecResolve
    /\ WF_vars(ResolveStart)
    /\ WF_vars(LoopExit)
    /\ WF_vars(LoopRetry /\ challengeKey' \in ResolvedKeys[signerAddress])

----------------------------------------------------------------------------
(* Properties of resolveChallenge                                          *)

\* resolveChallenge has returned challengeKey
ResolveReturned == pc \notin {"start", "loop"}

\* the 20 bytes of the caller address
SignerBytes == BufferFromHex(slice2(caller))

\* the key as 20 bytes, zero-padded at the most significant end
KeyBytes ==
    [i \in 1..((HexLen \div 2) - Len(challengeKey)) |-> 0] \o challengeKey

\* a < b for two byte strings of equal length, as unsigned integers
RECURSIVE LessBytes(_, _)
LessBytes(a, b) ==
    IF a = <<>> THEN FALSE
    ELSE IF Head(a) # Head(b) THEN Head(a) < Head(b)
    ELSE LessBytes(Tail(a), Tail(b))

\* C2: for every key resolveChallenge returns, the last byte of the caller
\* address XOR the key zero-padded to 160 bits (both 20 bytes, aligned at the
\* least significant byte) is 69, also when the key has leading zero bytes.
C2_LastByteIsGoal ==
    ResolveReturned =>
        BitXor(SignerBytes[HexLen \div 2], KeyBytes[HexLen \div 2]) = 69

\* C3: a key returned for an even caller lies in [caller+1, 2^160-1], a key
\* returned for an odd caller lies in [0, caller-1]; the key is a 160-bit
\* value different from the caller.
C3_KeyInAdmissibleRange ==
    ResolveReturned =>
        /\ Len(challengeKey) <= HexLen \div 2
        /\ \A i \in 1..Len(challengeKey) : challengeKey[i] \in 0..255
        /\ IF SignerBytes[HexLen \div 2] % 2 = 0
             THEN LessBytes(SignerBytes, KeyBytes)
             ELSE LessBytes(KeyBytes, SignerBytes)
        /\ KeyBytes # SignerBytes

\* a key above an even caller has been returned after at least one retry
C3_Witness ==
    /\ ResolveReturned
    /\ SignerBytes[HexLen \div 2] % 2 = 0
    /\ LessBytes(SignerBytes, KeyBytes)
    /\ draws > 1

\* a key below an odd caller has been returned
C3_WitnessOdd ==
    /\ ResolveReturned
    /\ SignerBytes[HexLen \div 2] % 2 = 1
    /\ LessBytes(KeyBytes, SignerBytes)

\* C4: with a fair random source, resolveChallenge returns for every caller.
C4_ResolveTerminates == <>ResolveReturned

----------------------------------------------------------------------------
(* Properties of Router.swapCallParameters                                 *)

Finished == pc \in {"returned", "failed"}

BothNative ==
    trade.inputAmount.currency = ETHER /\ trade.outputAmount.currency = ETHER

BadTtl == "ttl" \in DOMAIN options /\ options.ttl <= 0

BadRecipient == options.recipient # "0xRecipient"

FeeOnTransferRequested ==
    "feeOnTransfer" \in DOMAIN options /\ options.feeOnTransfer = TRUE

ExactOutFot == trade.tradeType = EXACT_OUTPUT /\ FeeOnTransferRequested

ValidInput == ~BothNative /\ ~BadTtl /\ ~BadRecipient /\ ~ExactOutFot

\* the decision table: direction, input native, output native, fee on
\* transfer ("any" where the table has a dash), method, layout of the
\* arguments before the challenge key
DecisionTable ==
    { <<EXACT_INPUT, TRUE, FALSE, "no", "swapExactETHForTokens", "out">>,
      <<EXACT_INPUT, TRUE, FALSE, "yes",
        "swapExactETHForTokensSupportingFeeOnTransferTokens", "out">>,
      <<EXACT_INPUT, FALSE, TRUE, "no", "swapExactTokensForETH", "in-out">>,
      <<EXACT_INPUT, FALSE, TRUE, "yes",
        "swapExactTokensForETHSupportingFeeOnTransferTokens", "in-out">>,
      <<EXACT_INPUT, FALSE, FALSE, "no", "swapExactTokensForTokens", "in-out">>,
      <<EXACT_INPUT, FALSE, FALSE, "yes",
        "swapExactTokensForTokensSupportingFeeOnTransferTokens", "in-out">>,
      <<EXACT_OUTPUT, TRUE, FALSE, "any", "swapETHForExactTokens", "out">>,
      <<EXACT_OUTPUT, FALSE, TRUE, "any", "swapTokensForExactETH", "out-in">>,
      <<EXACT_OUTPUT, FALSE, FALSE, "any", "swapTokensForExactTokens",
        "out-in">> }

RowSelected(row) ==
    /\ row[1] = trade.tradeType
    /\ row[2] = (trade.inputAmount.currency = ETHER)
    /\ row[3] = (trade.outputAmount.currency = ETHER)
    /\ row[4] \in {"any", IF FeeOnTransferRequested THEN "yes" ELSE "no"}

RowArgs(row) ==
    IF row[6] = "out" THEN <<amountOut, path, to, deadline>>
    ELSE IF row[6] = "in-out" THEN <<amountIn, amountOut, path, to, deadline>>
    ELSE <<amountOut, amountIn, path, to, deadline>>

\* C1: a valid input never fails, and what build returns is the row of the
\* decision table selected by (direction, input native, output native, fee
\* on transfer): its method, its arguments in its order followed by the
\* challenge key, and as value the encoded maximum input amount when the
\* input leg is native and "0x0" otherwise.
C1_DecisionTable ==
    /\ pc = "failed" => ~ValidInput
    /\ pc = "returned" =>
         /\ ValidInput
         /\ amountIn = <<"0", "x">> \o NumToString16(trade.maximumAmountIn)
         /\ Cardinality({ row \in DecisionTable : RowSelected(row) }) = 1
         /\ \A row \in DecisionTable :
              RowSelected(row) =>
                /\ result.methodName = row[5]
                /\ result.args = RowArgs(row) \o <<toHexString(challengeKey)>>
                /\ result.value = IF row[2] THEN amountIn ELSE <<"0", "x", "0">>

\* the rows build has returned, one predicate per row of the table
RowReturned(method) == pc = "returned" /\ result.methodName = method

C1_Witness == RowReturned("swapTokensForExactETH") /\ result.args[2] = amountIn

C1_Row1 == RowReturned("swapExactETHForTokens")

C1_Row2 == RowReturned("swapExactETHForTokensSupportingFeeOnTransferTokens")

C1_Row3 == RowReturned("swapExactTokensForETH")

C1_Row4 == RowReturned("swapExactTokensForETHSupportingFeeOnTransferTokens")

C1_Row5 == RowReturned("swapExactTokensForTokens")

C1_Row6 == RowReturned("swapExactTokensForTokensSupportingFeeOnTransferTokens")

C1_Row7 == RowReturned("swapETHForExactTokens")

C1_Row9 == RowReturned("swapTokensForExactTokens")

C6_FailsBeforeAnyWork ==
    (pc = "failed" /\ error \in {"ETHER_IN_OUT", "TTL", "EXACT_OUT_FOT"}) =>
        /\ resolveCalls = 0
        /\ draws = 0
        /\ signerAddress = Unset
    /\ challengeKey = NoKey
        /\ to = None
        /\ amountIn = Unset
        /\ path = Unset
        /\ deadline = Unset
        /\ nowMs = -1

\* C7: when build returns, resolveChallenge has been called exactly once,
\* with the caller, and the last argument is the hex encoding of the key
\* that call returned.
C7_LastArgIsResolvedKey ==
    pc = "returned" =>
        /\ resolveCalls = 1
        /\ signerAddress = caller
        /\ challengeKey \in ResolvedKeys[caller]
        /\ Len(result.args) \in {5, 6}
        /\ Last(result.args) = toHexString(challengeKey)
        /\ BigNumberFrom(Last(result.args)) = challengeKey

\* swapExactTokensForETH has been returned with a key that has leading zero
\* bytes, found after a retry
C7_Witness ==
    /\ RowReturned("swapExactTokensForETH")
    /\ Len(challengeKey) < HexLen \div 2
    /\ draws > 1
    /\ Last(result.args) = toHexString(challengeKey)

\* the output-amount argument: the second of the exact-input rows that also
\* carry amountIn, the first of every other row
OutputAmountSlot ==
    IF trade.tradeType = EXACT_INPUT /\ trade.inputAmount.currency # ETHER
    THEN result.args[2]
    ELSE result.args[1]

\* C8: in every SwapCall returned, the output-amount argument (minOut of the
\* exact-input rows, amountOut of the exact-output rows) is "0x0", whatever
\* the slippage-adjusted amounts of the trade are.
C8_OutputAmountIsZero ==
    pc = "returned" => OutputAmountSlot = <<"0", "x", "0">>

\* a call has been returned for a trade whose minimum output amount is 99
C8_Witness ==
    /\ pc = "returned"
    /\ trade.minimumAmountOut = 99
    /\ trade.tradeType = EXACT_INPUT
    /\ OutputAmountSlot = <<"0", "x", "0">>

\* the scenario: exact-input, token to token, no fee-on-transfer,
\* amountIn = 0x64, path = [tokenA, tokenB], a valid recipient, ttl = 1200
Scenario ==
    /\ trade.tradeType = EXACT_INPUT
    /\ trade.inputAmount.currency = TOKEN
    /\ trade.outputAmount.currency = TOKEN
    /\ ~FeeOnTransferRequested
    /\ trade.maximumAmountIn = 100
    /\ trade.route = <<[address |-> "tokenA"], [address |-> "tokenB"]>>
    /\ options.recipient = "0xRecipient"
    /\ "ttl" \in DOMAIN options
    /\ options.ttl = 1200

\* h is the hex encoding of n
EncodesNumber(h, n) ==
    /\ Len(h) > 2
    /\ SubSeq(h, 1, 2) = <<"0", "x">>
    /\ \A i \in 3..Len(h) : IsHexChar(h[i])
    /\ parseInt16(slice2(h)) = n

\* C9 as stated: the scenario yields swapExactTokensForTokens, value "0x0"
\* and exactly five arguments: "0x0", the path, the recipient, the deadline
\* (epoch seconds + 1200) and the key.
C9_ScenarioFiveArgs ==
    (Scenario /\ pc = "returned") =>
        /\ result.methodName = "swapExactTokensForTokens"
        /\ result.value = <<"0", "x", "0">>
        /\ Len(result.args) = 5
        /\ result.args[1] = <<"0", "x", "0">>
        /\ result.args[2] = <<"tokenA", "tokenB">>
        /\ result.args[3] = "0xRecipient"
        /\ EncodesNumber(result.args[4], (nowMs \div 1000) + 1200)
        /\ result.args[5] = toHexString(challengeKey)

\* C9 amended: the scenario yields swapExactTokensForTokens, value "0x0" and
\* exactly six arguments: "0x64" (amountIn), "0x0", the path, the recipient,
\* the deadline (epoch seconds + 1200) and the key.
C9_ScenarioSixArgs ==
    (Scenario /\ pc = "returned") =>
        /\ result.methodName = "swapExactTokensForTokens"
        /\ result.value = <<"0", "x", "0">>
        /\ Len(result.args) = 6
        /\ result.args[1] = <<"0", "x", "6", "4">>
        /\ result.args[2] = <<"0", "x", "0">>
        /\ result.args[3] = <<"tokenA", "tokenB">>
        /\ result.args[4] = "0xRecipient"
        /\ EncodesNumber(result.args[5], (nowMs \div 1000) + 1200)
        /\ result.args[6] = toHexString(challengeKey)

\* the scenario has returned, for caller 2, with the clock at 1500 ms
C9_Witness ==
    /\ Scenario
    /\ pc = "returned"
    /\ caller = Address(<<0, 0, 2>>)
    /\ nowMs = 1500
    /\ result.args[5] = <<"0", "x", "4", "b", "1">>

\* the failure the order ETHER_IN_OUT, TTL, invalid recipient,
\* EXACT_OUT_FOT gives
FirstViolation ==
    IF BothNative THEN "ETHER_IN_OUT"
    ELSE IF BadTtl THEN "TTL"
    ELSE IF BadRecipient THEN "INVALID_ADDRESS"
    ELSE IF ExactOutFot THEN "EXACT_OUT_FOT"
    ELSE None

\* C10: a build that ends reports exactly the first violation in the order
\* ETHER_IN_OUT, TTL, invalid recipient, EXACT_OUT_FOT (none when the input
\* is valid), and no reason is reported before it ends.
C10_FailurePrecedence ==
    /\ Finished => error = FirstViolation
    /\ pc = "failed" <=> error # None
    /\ pc = "returned" <=> result # NoResult

\* an input violating all four conditions has failed with ETHER_IN_OUT
C10_Witness ==
    /\ pc = "failed"
    /\ BothNative /\ BadTtl /\ BadRecipient /\ ExactOutFot
    /\ error = "ETHER_IN_OUT"

\* an exact-output trade with fee-on-transfer and nothing else wrong has
\* failed with EXACT_OUT_FOT
C10_WitnessFot ==
    /\ pc = "failed"
    /\ ExactOutFot /\ ~BothNative /\ ~BadTtl /\ ~BadRecipient
    /\ error = "EXACT_OUT_FOT"

====
